---------------------------- MODULE Spec2Model ----------------------------
(***************************************************************************)
(* Model of scripts/populate-doc-graph.py: the corpus scan of main(), the  *)
(* dry-run / connect decision, and the write sequence of create_graph()    *)
(* against a labelled property graph.                                      *)
(*                                                                         *)
(* Strings are TLA+ strings; paths are sequences of path segments.  A      *)
(* markdown body is a sequence of tokens (links, phrases, backtick spans,  *)
(* bold spans, status lines), which is what the regular expressions of the *)
(* extractors pick out of the text.  Title, headings, frontmatter and the  *)
(* truncated content are payload that no write decision depends on and are *)
(* not carried.                                                            *)
(***************************************************************************)
EXTENDS Integers, Sequences, FiniteSets, TLC

(***************************************************************************)
(* Bounds of the model.                                                    *)
(***************************************************************************)
MaxFiles == 2

(***************************************************************************)
(* Program constants.                                                      *)
(***************************************************************************)
ConceptCap == 20
ConceptWriteCap == 10
ConceptMinLen == 2
ConceptMaxLen == 50

(***************************************************************************)
(* String helpers (str.lower, str.upper, "in", startswith, endswith,       *)
(* replace(" ", "")).                                                      *)
(***************************************************************************)
UpperChars == "ABCDEFGHIJKLMNOPQRSTUVWXYZ"
LowerChars == "abcdefghijklmnopqrstuvwxyz"
DigitChars == "0123456789"

CharAt(s, i) == SubSeq(s, i, i)

IsIn(c, alphabet) == \E k \in 1..Len(alphabet) : CharAt(alphabet, k) = c

MapChar(c, from, to) ==
    IF IsIn(c, from)
    THEN CharAt(to, CHOOSE k \in 1..Len(from) : CharAt(from, k) = c)
    ELSE c

RECURSIVE MapString(_, _, _)
MapString(s, from, to) ==
    IF Len(s) = 0 THEN ""
    ELSE MapChar(CharAt(s, 1), from, to) \o MapString(Tail(s), from, to)

Lower(s) == MapString(s, UpperChars, LowerChars)
Upper(s) == MapString(s, LowerChars, UpperChars)

Contains(s, sub) ==
    \E k \in 1..(Len(s) - Len(sub) + 1) : SubSeq(s, k, k + Len(sub) - 1) = sub

StartsWith(s, pre) == Len(s) >= Len(pre) /\ SubSeq(s, 1, Len(pre)) = pre

EndsWith(s, suf) ==
    Len(s) >= Len(suf) /\ SubSeq(s, Len(s) - Len(suf) + 1, Len(s)) = suf

RECURSIVE RemoveSpaces(_)
RemoveSpaces(s) ==
    IF Len(s) = 0 THEN ""
    ELSE (IF CharAt(s, 1) = " " THEN "" ELSE CharAt(s, 1)) \o RemoveSpaces(Tail(s))

(***************************************************************************)
(* Sequence helpers.                                                       *)
(***************************************************************************)
Take(seq, n) == SubSeq(seq, 1, IF Len(seq) < n THEN Len(seq) ELSE n)

Range(seq) == {seq[k] : k \in 1..Len(seq)}

\* All the orders in which a list can be built from a set (list(set(...))).
Orderings(S) ==
    {seq \in [1..Cardinality(S) -> S] : \A x \in S : \E k \in DOMAIN seq : seq[k] = x}

(***************************************************************************)
(* pathlib: str(path), Path.name, Path.stem, Path.parent.name.             *)
(***************************************************************************)
RECURSIVE JoinPath(_)
JoinPath(segs) ==
    IF Len(segs) = 0 THEN ""
    ELSE IF Len(segs) = 1 THEN segs[1]
    ELSE segs[1] \o "/" \o JoinPath(Tail(segs))

\* str(md_file) of an absolute path
AbsString(segs) == "/" \o JoinPath(segs)

PathName(segs) == segs[Len(segs)]

ParentName(segs) == IF Len(segs) >= 2 THEN segs[Len(segs) - 1] ELSE ""

PathStem(segs) ==
    LET name == PathName(segs)
        dots == {k \in 2..Len(name) : CharAt(name, k) = "."}
    IN  IF dots = {} \/ EndsWith(name, ".") THEN name
        ELSE SubSeq(name, 1, (CHOOSE k \in dots : \A m \in dots : m <= k) - 1)

(***************************************************************************)
(* determine_doc_type                                                      *)
(***************************************************************************)
determine_doc_type(path) ==
    LET path_lower == Lower(path)
    IN  IF Contains(path_lower, "overview") \/ Contains(path, "00-") THEN "overview"
        ELSE IF Contains(path_lower, "architecture") \/ Contains(path, "01-")
             THEN "architecture"
        ELSE IF Contains(path_lower, "decision") \/ Contains(path, "02-")
             THEN "decision"
        ELSE IF Contains(path_lower, "implementation") \/ Contains(path, "04-")
             THEN "implementation"
        ELSE IF Contains(path_lower, "operations") \/ Contains(path, "05-")
             THEN "operations"
        ELSE IF Contains(path_lower, "plan") \/ Contains(path, "06-") THEN "plan"
        ELSE "other"

(***************************************************************************)
(* extract_references: the targets of markdown links that end in ".md"     *)
(* and do not start with "http", in document order, duplicates kept.       *)
(***************************************************************************)
IsReference(tok) ==
    /\ tok.kind = "link"
    /\ Len(tok.text) >= 4
    /\ EndsWith(tok.text, ".md")
    /\ ~StartsWith(tok.text, "http")

extract_references(content) ==
    LET hits == SelectSeq(content, IsReference)
    IN  [k \in 1..Len(hits) |-> hits[k].text]

(***************************************************************************)
(* extract_components: the surface forms of the pattern list, matched      *)
(* case-insensitively; the matched text with its spaces removed is the     *)
(* component name; a set.                                                  *)
(***************************************************************************)
ComponentForms ==
    { "TokenScreener", "Screener", "RiskEngine", "Risk Engine",
      "ExitEngine", "Exit Engine", "TradeExecutor", "Trade Executor",
      "Executor", "Keystore", "Key Store", "WebhookHandler",
      "Webhook Handler", "CopyTradeWorker", "Copy Trade Worker",
      "ExitCheckWorker", "Exit Check Worker", "PriceUpdateWorker",
      "Price Update Worker", "Jupiter", "Helius", "Birdeye" }

IsComponentMention(tok) ==
    /\ tok.kind \in {"text", "code", "bold"}
    /\ \E form \in ComponentForms : Lower(form) = Lower(tok.text)

extract_components(content) ==
    {RemoveSpaces(tok.text) : tok \in {t \in Range(content) : IsComponentMention(t)}}

(***************************************************************************)
(* extract_concepts: backtick spans (not starting with "/") and bold       *)
(* spans whose length is strictly between 2 and 50; a set.                 *)
(***************************************************************************)
IsConcept(tok) ==
    /\ tok.kind \in {"code", "bold"}
    /\ Len(tok.text) > ConceptMinLen
    /\ Len(tok.text) < ConceptMaxLen
    /\ (tok.kind = "code" => ~StartsWith(tok.text, "/"))

extract_concepts(content) ==
    {tok.text : tok \in {t \in Range(content) : IsConcept(t)}}

(***************************************************************************)
(* parse_document.  list(set) may come out in any order, so the component  *)
(* and concept lists are parameters chosen among the orderings.            *)
(***************************************************************************)
parse_document(rel, content, comps, concs) ==
    [ path       |-> JoinPath(rel),
      doc_type   |-> determine_doc_type(JoinPath(rel)),
      references |-> extract_references(content),
      components |-> comps,
      concepts   |-> Take(concs, ConceptCap) ]

(***************************************************************************)
(* parse_decision: None unless the stem matches ^(\d+)-(.+)$.              *)
(***************************************************************************)
RECURSIVE DigitPrefixLen(_)
DigitPrefixLen(s) ==
    IF Len(s) > 0 /\ IsIn(CharAt(s, 1), DigitChars)
    THEN 1 + DigitPrefixLen(Tail(s))
    ELSE 0

MatchesDecisionName(stem) ==
    LET d == DigitPrefixLen(stem)
    IN  d >= 1 /\ Len(stem) >= d + 2 /\ CharAt(stem, d + 1) = "-"

IsStatusLine(tok) == tok.kind = "status"

DecisionStatus(content) ==
    LET hits == SelectSeq(content, IsStatusLine)
    IN  IF hits = <<>> THEN "accepted" ELSE Lower(hits[1].text)

None == [none |-> TRUE]

\* Variant of parse_decision: the file name in place of the relative path.
parse_decision_ByName(rel, content) ==
    LET stem == PathStem(rel)
    IN  IF ~MatchesDecisionName(stem) THEN None
        ELSE [ id     |-> SubSeq(stem, 1, DigitPrefixLen(stem)),
               status |-> DecisionStatus(content),
               path   |-> PathName(rel) ]

parse_decision(rel, content) ==
    LET stem == PathStem(rel)
    IN  IF ~MatchesDecisionName(stem) THEN None
        ELSE [ id     |-> SubSeq(stem, 1, DigitPrefixLen(stem)),
               status |-> DecisionStatus(content),
               path   |-> JoinPath(rel) ]

(***************************************************************************)
(* The graph store: nodes with a set of labels and a property map,         *)
(* relationships with a type and two end nodes.  Node and relationship     *)
(* identifiers are the store's, not the program's.                         *)
(***************************************************************************)
EmptyStore == [nodes |-> {}, edges |-> {}]

FreshId(used) == CHOOSE n \in 1..(Cardinality(used) + 1) : n \notin used

NodeIds(s) == {n.id : n \in s.nodes}

EdgeIds(s) == {e.eid : e \in s.edges}

\* MATCH (x:l1:l2 {key: val})
MatchNodes(s, labels, key, val) ==
    {n \in s.nodes : /\ labels \subseteq n.labels
                     /\ key \in DOMAIN n.props
                     /\ n.props[key] = val}

\* CREATE (x:labels {props})
CreateNode(s, labels, props) ==
    [s EXCEPT !.nodes = @ \cup {[id |-> FreshId(NodeIds(s)), labels |-> labels,
                                 props |-> props]}]

\* MERGE (a)-[:type]->(b) for one row (a, b)
MergeEdge(s, type, src, dst) ==
    IF \E e \in s.edges : e.type = type /\ e.src = src /\ e.dst = dst THEN s
    ELSE [s EXCEPT !.edges = @ \cup {[eid |-> FreshId(EdgeIds(s)), type |-> type,
                                      src |-> src, dst |-> dst]}]

\* MERGE (a)-[:type]->(b) for every row of the preceding MATCH clauses
RECURSIVE MergeEdges(_, _, _)
MergeEdges(s, type, rows) ==
    IF rows = {} THEN s
    ELSE LET row == CHOOSE r \in rows : TRUE
         IN  MergeEdges(MergeEdge(s, type, row[1], row[2]), type, rows \ {row})

\* Variants of ClearProject: the reset left out; a reset that is not scoped.
ClearProject_Skipped(s, L) == s

ClearProject_Everything(s, L) == EmptyStore

\* MATCH (n:L) DETACH DELETE n
ClearProject(s, L) ==
    LET gone == {n.id : n \in {m \in s.nodes : L \in m.labels}}
    IN  [nodes |-> {n \in s.nodes : n.id \notin gone},
         edges |-> {e \in s.edges : e.src \notin gone /\ e.dst \notin gone}]

\* CREATE (d:L:Document {path, title, type, headings, content})
CreateDocument(s, L, q) ==
    CreateNode(s, {L, "Document"}, [path |-> q.path, type |-> q.type])

\* MERGE (c:L:kind {name}) WITH c MATCH (d:L:Document {path}) MERGE (d)-[:rel]->(c)
MergeNamedNode(s, L, kind, rel, q) ==
    LET s1 == IF MatchNodes(s, {L, kind}, "name", q.name) = {}
              THEN CreateNode(s, {L, kind}, [name |-> q.name])
              ELSE s
        cs == MatchNodes(s1, {L, kind}, "name", q.name)
        ds == MatchNodes(s1, {L, "Document"}, "path", q.path)
    IN  MergeEdges(s1, rel, {<<d.id, c.id>> : d \in ds, c \in cs})

\* Variant of MergeComponent: CREATE instead of MERGE for the Component node.
MergeComponent_AlwaysCreates(s, L, q) ==
    LET c == FreshId(NodeIds(s))
        s1 == CreateNode(s, {L, "Component"}, [name |-> q.name])
        ds == MatchNodes(s1, {L, "Document"}, "path", q.path)
    IN  MergeEdges(s1, "DESCRIBES", {<<d.id, c>> : d \in ds})

MergeComponent(s, L, q) == MergeNamedNode(s, L, "Component", "DESCRIBES", q)

MergeConcept(s, L, q) == MergeNamedNode(s, L, "Concept", "MENTIONS", q)

\* CREATE (d:L:Decision {id, title, status, path, context, decision, consequences})
CreateDecision(s, L, q) ==
    CreateNode(s, {L, "Decision"}, [id |-> q.id, status |-> q.status, path |-> q.path])

\* CREATE (a)-[:type]->(b) for every row
RECURSIVE CreateEdges(_, _, _)
CreateEdges(s, type, rows) ==
    IF rows = {} THEN s
    ELSE LET row == CHOOSE r \in rows : TRUE
             s1 == [s EXCEPT !.edges = @ \cup {[eid |-> FreshId(EdgeIds(s)), type |-> type,
                                                src |-> row[1], dst |-> row[2]]}]
         IN  CreateEdges(s1, type, rows \ {row})

\* Variant of MergeReference: CREATE instead of MERGE for the relationship.
MergeReference_AlwaysCreates(s, L, q) ==
    LET d1s == MatchNodes(s, {L, "Document"}, "path", q.from_path)
        d2s == MatchNodes(s, {L, "Document"}, "path", q.to_path)
    IN  CreateEdges(s, "REFERENCES", {<<a.id, b.id>> : a \in d1s, b \in d2s})

\* MATCH (d1:L:Document {path: from}) MATCH (d2:L:Document {path: to})
\* MERGE (d1)-[:REFERENCES]->(d2)
MergeReference(s, L, q) ==
    LET d1s == MatchNodes(s, {L, "Document"}, "path", q.from_path)
        d2s == MatchNodes(s, {L, "Document"}, "path", q.to_path)
    IN  MergeEdges(s, "REFERENCES", {<<a.id, b.id>> : a \in d1s, b \in d2s})

\* MATCH (n:L) RETURN labels(n) as labels, count(*) as count
Summary(s, L) ==
    LET mine == {n \in s.nodes : L \in n.labels}
    IN  {[labels |-> ls, count |-> Cardinality({n \in mine : n.labels = ls})] :
            ls \in {n.labels : n \in mine}}

(***************************************************************************)
(* The sequence of queries create_graph issues for given inputs, in order. *)
(***************************************************************************)
DocumentQueries(doc) ==
    LET concs == Take(doc.concepts, ConceptWriteCap)
    IN  <<[op |-> "create_document", path |-> doc.path, type |-> doc.doc_type]>>
        \o [k \in 1..Len(doc.components) |->
               [op |-> "merge_component", name |-> doc.components[k], path |-> doc.path]]
        \o [k \in 1..Len(concs) |->
               [op |-> "merge_concept", name |-> concs[k], path |-> doc.path]]

ReferenceQueries(doc) ==
    [k \in 1..Len(doc.references) |->
        [op |-> "merge_reference", from_path |-> doc.path, to_path |-> doc.references[k]]]

RECURSIVE Flatten(_)
Flatten(seqs) == IF seqs = <<>> THEN <<>> ELSE Head(seqs) \o Flatten(Tail(seqs))

WriteSequence(ds, decs) ==
    <<[op |-> "clear"]>>
    \o Flatten([k \in 1..Len(ds) |-> DocumentQueries(ds[k])])
    \o [k \in 1..Len(decs) |->
           [op |-> "create_decision", id |-> decs[k].id, status |-> decs[k].status,
            path |-> decs[k].path]]
    \o Flatten([k \in 1..Len(ds) |-> ReferenceQueries(ds[k])])
    \o <<[op |-> "summary"]>>

\* The effect of one query of the sequence on the store.
ApplyQuery(s, L, q) ==
    CASE q.op = "clear"           -> ClearProject(s, L)
      [] q.op = "create_document" -> CreateDocument(s, L, q)
      [] q.op = "merge_component" -> MergeComponent(s, L, q)
      [] q.op = "merge_concept"   -> MergeConcept(s, L, q)
      [] q.op = "create_decision" -> CreateDecision(s, L, q)
      [] q.op = "merge_reference" -> MergeReference(s, L, q)
      [] q.op = "summary"         -> s

\* The store after the first n queries of a sequence have completed.
RECURSIVE RunQueries(_, _, _, _)
RunQueries(s, L, qs, n) ==
    IF n = 0 THEN s
    ELSE ApplyQuery(RunQueries(s, L, qs, n - 1), L, qs[n])

(***************************************************************************)
(* Inputs: the docs root, the markdown files found under it (relative      *)
(* paths, in the order rglob yields them), their bodies, the project       *)
(* label, and what earlier runs left in the store.                         *)
(***************************************************************************)
MaxRuns == 2

\* Project labels are names other than the kind tags Document, Component,
\* Concept and Decision.
Projects == {"TradingEngine", "Wiki"}

Roots == { <<"srv", "docs">>, <<"srv", "02-site", "docs">> }

RootReadme == <<"Readme.md">>
GuideReadme == <<"guide", "README.md">>
DbDecision == <<"decisions", "003-db.md">>
ApiDecision == <<"architecture", "decisions", "002-api.md">>
GuideIntro == <<"guide", "100-intro.md">>

FileUniverse == {RootReadme, GuideReadme, DbDecision, ApiDecision, GuideIntro}

Tok(kind, text) == [kind |-> kind, text |-> text]

FileContent(rel) ==
    CASE rel = RootReadme ->
           << Tok("text", "Jupiter") >>
      [] rel = GuideReadme ->
           << Tok("link", "decisions/003-db.md"), Tok("text", "Trade Executor"),
              Tok("link", "decisions/003-db.md"), Tok("link", "missing.md"),
              Tok("link", "http://x.io/a.md"), Tok("code", "Jupiter"),
              Tok("link", "notes.txt"), Tok("code", "/etc"), Tok("bold", "ab") >>
      [] rel = DbDecision ->
           << Tok("status", "Proposed"), Tok("link", "guide/README.md"),
              Tok("text", "TradeExecutor"), Tok("text", "tradeexecutor pool") >>
      [] rel = ApiDecision ->
           << Tok("link", "architecture/decisions/002-api.md"),
              Tok("text", "jupiter"), Tok("bold", "API") >>
      [] rel = GuideIntro ->
           << Tok("text", "Jupiter"), Tok("link", "../decisions/003-db.md"),
              Tok("link", "architecture/decisions/002-api.md") >>

FileLists ==
    UNION { {fl \in [1..n -> FileUniverse] : \A a, b \in 1..n : a # b => fl[a] # fl[b]} :
              n \in 0..MaxFiles }

\* A Document as some earlier scan built it.
EarlierDocument(rel) ==
    parse_document(rel, FileContent(rel),
                   CHOOSE o \in Orderings(extract_components(FileContent(rel))) : TRUE,
                   CHOOSE o \in Orderings(extract_concepts(FileContent(rel))) : TRUE)

EarlierRun == WriteSequence(<<EarlierDocument(GuideReadme), EarlierDocument(DbDecision)>>,
                            <<parse_decision(DbDecision, FileContent(DbDecision))>>)

AbortedRun == WriteSequence(<<EarlierDocument(ApiDecision), EarlierDocument(DbDecision)>>,
                            <<>>)

\* What the store may hold when a run starts: nothing, the result of a
\* complete earlier run for one label, or that followed by an aborted run for
\* the other label.
EarlierStores ==
    LET full == RunQueries(EmptyStore, "TradingEngine", EarlierRun, Len(EarlierRun))
    IN  { EmptyStore, full, RunQueries(full, "Wiki", AbortedRun, 4) }

(***************************************************************************)
(* State.                                                                  *)
(***************************************************************************)
VARIABLES
    docs_path,     \* args.docs_path, resolved
    path_exists,   \* docs_path.exists()
    md_files,      \* list(docs_path.rglob("*.md")), relative to docs_path
    project,       \* args.project
    dry_run,       \* args.dry_run
    pc,            \* position in main(): start, scan, scanned, graph, done, exit, error
    idx,           \* position of the scan loop in md_files
    docs,          \* parsed Documents
    decisions,     \* parsed Decisions
    warnings,      \* files a "Failed to parse" warning was printed for
    built,         \* files whose parse_document call returned (history)
    driver,        \* none, open, closed
    verified,      \* verify_connectivity() has returned (history)
    err,           \* exception main() ends with: none, connect, write
    store,         \* the graph store
    base,          \* the store as it was when the current run started (history)
    plan,          \* the queries create_graph issues for docs and decisions
    qi,            \* position of create_graph in plan
    nq,            \* queries issued so far
    failed_at,     \* nq of the query that failed, 0 if none did (history)
    tally,         \* rows of the summary query
    run,           \* number of the current run
    after_first    \* what the previous run left under the label (history)

vars == << docs_path, path_exists, md_files, project, dry_run, pc, idx, docs,
           decisions, warnings, built, driver, verified, err, store, base, plan, qi,
           nq, failed_at, tally, run, after_first >>

inputVars == << docs_path, path_exists, md_files, project, dry_run >>
scanVars == << idx, docs, decisions, warnings, built >>
graphVars == << store, base, plan, qi, nq, failed_at, tally, run, after_first >>

\* What a run leaves under label L, without the store's identifiers.
NodeContent(n) == [labels |-> n.labels, props |-> n.props]

NodeById(s, id) == CHOOSE n \in s.nodes : n.id = id

View(s, L) ==
    LET mine == {n \in s.nodes : L \in n.labels}
        ids == {n.id : n \in mine}
        touching == {e \in s.edges : e.src \in ids \/ e.dst \in ids}
    IN  [ nodes  |-> {NodeContent(n) : n \in mine},
          counts |-> Summary(s, L),
          edges  |-> {[type |-> e.type, src |-> NodeContent(NodeById(s, e.src)),
                       dst |-> NodeContent(NodeById(s, e.dst))] : e \in touching},
          nedges |-> Cardinality(touching) ]

Init ==
    /\ docs_path \in Roots
    /\ path_exists \in BOOLEAN
    /\ md_files \in FileLists
    /\ project \in Projects
    /\ dry_run \in BOOLEAN
    /\ store \in EarlierStores
    /\ base = store
    /\ pc = "start"
    /\ idx = 1
    /\ docs = <<>>
    /\ decisions = <<>>
    /\ warnings = <<>>
    /\ built = {}
    /\ driver = "none"
    /\ verified = FALSE
    /\ err = "none"
    /\ plan = <<>>
    /\ qi = 1
    /\ nq = 0
    /\ failed_at = 0
    /\ tally = {}
    /\ run = 1
    /\ after_first = View(EmptyStore, project)

(***************************************************************************)
(* main(): the existence check and the scan loop.                          *)
(***************************************************************************)
CheckDocsPath ==
    /\ pc = "start"
    /\ pc' = IF ~path_exists THEN "exit"
             ELSE IF md_files = <<>> THEN "scanned" ELSE "scan"
    /\ UNCHANGED << inputVars, scanVars, driver, verified, err, graphVars >>

IsRootReadme(rel) == Upper(PathName(rel)) = "README.MD" /\ Len(rel) = 1

\* Variant of IsDecisionCandidate: parse_decision tried on every file.
IsDecisionCandidate_Always(root, rel) == TRUE

\* "decision" in md_file.parent.name.lower() or "02-" in str(md_file)
IsDecisionCandidate(root, rel) ==
    \/ Contains(Lower(ParentName(root \o rel)), "decision")
    \/ Contains(AbsString(root \o rel), "02-")

\* What the loop body computes for each file of the corpus: the Documents
\* parse_document may return (one per order of the component and concept
\* lists) and what parse_decision returns.
ParsedFiles ==
    { [ file      |-> rel,
        documents |-> { parse_document(rel, FileContent(rel), comps, concs) :
                          comps \in Orderings(extract_components(FileContent(rel))),
                          concs \in Orderings(extract_concepts(FileContent(rel))) },
        decision  |-> parse_decision(rel, FileContent(rel)) ] : rel \in FileUniverse }

Parsed(rel) == CHOOSE r \in ParsedFiles : r.file = rel

SkippedFiles == {rel \in FileUniverse : IsRootReadme(rel)}

DecisionCandidates ==
    {c \in Roots \X FileUniverse : IsDecisionCandidate(c[1], c[2])}

AdvanceScan ==
    /\ idx' = idx + 1
    /\ pc' = IF idx + 1 > Len(md_files) THEN "scanned" ELSE "scan"
    /\ err' = err

SkipReadme ==
    /\ pc = "scan"
    /\ md_files[idx] \in SkippedFiles
    /\ AdvanceScan
    /\ UNCHANGED << inputVars, docs, decisions, warnings, built, driver, verified,
                    graphVars >>

\* Variant of ParseFailed: the exception leaves the loop.
ParseFailed_Raises(rel) ==
    /\ pc' = "error"
    /\ err' = "parse"
    /\ UNCHANGED << idx, warnings >>

\* except Exception: print the warning, go on with the next file.
ParseFailed(rel) ==
    /\ warnings' = Append(warnings, rel)
    /\ AdvanceScan

\* One iteration of the loop body for a file that is not skipped.  doc_ok and
\* dec_ok say whether parse_document and parse_decision return or raise.
ScanFile ==
    /\ pc = "scan"
    /\ md_files[idx] \notin SkippedFiles
    /\ LET rel == md_files[idx]
       IN  \E doc_ok, dec_ok \in BOOLEAN :
           \E doc \in Parsed(rel).documents :
              IF ~doc_ok
              THEN /\ ParseFailed(rel)
                   /\ UNCHANGED << docs, decisions, built >>
              ELSE /\ docs' = Append(docs, doc)
                   /\ built' = built \cup {rel}
                   /\ IF <<docs_path, rel>> \notin DecisionCandidates
                      THEN AdvanceScan /\ UNCHANGED << decisions, warnings >>
                      ELSE IF ~dec_ok
                      THEN ParseFailed(rel) /\ UNCHANGED decisions
                      ELSE /\ decisions' =
                                 IF Parsed(rel).decision = None THEN decisions
                                 ELSE Append(decisions, Parsed(rel).decision)
                           /\ AdvanceScan
                           /\ UNCHANGED warnings
    /\ UNCHANGED << inputVars, driver, verified, graphVars >>

(***************************************************************************)
(* main(): dry run, or connect and write.                                  *)
(***************************************************************************)
\* Variant of SkipsGraph: the flag is not consulted.
SkipsGraph_Never(flag) == FALSE

\* if args.dry_run: ... return
SkipsGraph(flag) == flag

DryRun ==
    /\ pc = "scanned"
    /\ SkipsGraph(dry_run)
    /\ pc' = "done"
    /\ UNCHANGED << inputVars, scanVars, driver, verified, err, graphVars >>

\* Variant of ConnectOutcome: a failed connectivity check is not fatal.
ConnectOutcome_IgnoresFailure(outcome) ==
    CASE outcome = "no_driver" ->
           /\ pc' = "error"
           /\ err' = "connect"
           /\ UNCHANGED << driver, verified, plan >>
      [] OTHER ->
           /\ driver' = "open"
           /\ verified' = (outcome = "connected")
           /\ pc' = "graph"
           /\ err' = err
           /\ plan' = WriteSequence(docs, decisions)

\* GraphDatabase.driver(...) then driver.verify_connectivity(); the finally
\* clause closes the driver when the check raises.  On success create_graph
\* is entered.
ConnectOutcome(outcome) ==
    CASE outcome = "connected" ->
           /\ driver' = "open"
           /\ verified' = TRUE
           /\ pc' = "graph"
           /\ err' = err
           /\ plan' = WriteSequence(docs, decisions)
      [] outcome = "no_driver" ->
           /\ pc' = "error"
           /\ err' = "connect"
           /\ UNCHANGED << driver, verified, plan >>
      [] outcome = "unreachable" ->
           /\ driver' = "closed"
           /\ pc' = "error"
           /\ err' = "connect"
           /\ UNCHANGED << verified, plan >>

Connect ==
    /\ pc = "scanned"
    /\ ~SkipsGraph(dry_run)
    /\ \E outcome \in {"connected", "no_driver", "unreachable"} : ConnectOutcome(outcome)
    /\ UNCHANGED << inputVars, scanVars, store, base, qi, nq, failed_at, tally, run,
                    after_first >>

(***************************************************************************)
(* create_graph(): one action per query of the write sequence.  Every      *)
(* query runs in its own session; when it raises, nothing catches the      *)
(* exception before main()'s finally clause.                               *)
(***************************************************************************)
CurrentQuery == plan[qi]

\* Variant of QueryFails: the exception is swallowed and the sequence goes on.
QueryFails_Swallowed ==
    /\ nq' = nq + 1
    /\ failed_at' = nq + 1
    /\ IF qi = Len(plan)
       THEN pc' = "done" /\ driver' = "closed" /\ qi' = qi
       ELSE pc' = pc /\ driver' = driver /\ qi' = qi + 1
    /\ err' = err
    /\ UNCHANGED << store, base, plan, tally, run, after_first >>

QueryFails ==
    /\ pc' = "error"
    /\ err' = "write"
    /\ driver' = "closed"
    /\ nq' = nq + 1
    /\ failed_at' = nq + 1
    /\ UNCHANGED << store, base, plan, qi, tally, run, after_first >>

QuerySucceeds ==
    /\ store' = ApplyQuery(store, project, CurrentQuery)
    /\ tally' = IF CurrentQuery.op = "summary" THEN Summary(store, project) ELSE tally
    /\ nq' = nq + 1
    /\ IF qi = Len(plan)
       THEN pc' = "done" /\ driver' = "closed" /\ qi' = qi
       ELSE pc' = pc /\ driver' = driver /\ qi' = qi + 1
    /\ err' = err
    /\ UNCHANGED << base, plan, failed_at, run, after_first >>

RunQuery(op) ==
    /\ pc = "graph"
    /\ CurrentQuery.op = op
    /\ (QuerySucceeds \/ QueryFails)
    /\ UNCHANGED << inputVars, scanVars, verified >>

ClearExisting == RunQuery("clear")
CreateDocumentNode == RunQuery("create_document")
LinkComponent == RunQuery("merge_component")
LinkConcept == RunQuery("merge_concept")
CreateDecisionNode == RunQuery("create_decision")
LinkReference == RunQuery("merge_reference")
PrintSummary == RunQuery("summary")

\* The same Documents and Decisions are written again under the same label.
RunAgain ==
    /\ pc = "done"
    /\ ~dry_run
    /\ run < MaxRuns
    /\ run' = run + 1
    /\ after_first' = View(store, project)
    /\ base' = store
    /\ pc' = "graph"
    /\ qi' = 1
    /\ driver' = "open"
    /\ tally' = {}
    /\ UNCHANGED << inputVars, scanVars, verified, err, store, plan, nq, failed_at >>

Next ==
    \/ CheckDocsPath
    \/ SkipReadme
    \/ ScanFile
    \/ DryRun
    \/ Connect
    \/ ClearExisting
    \/ CreateDocumentNode
    \/ LinkComponent
    \/ LinkConcept
    \/ CreateDecisionNode
    \/ LinkReference
    \/ PrintSummary
    \/ RunAgain

Spec == Init /\ [][Next]_vars

(***************************************************************************)
(* Properties.                                                             *)
(***************************************************************************)
\* The relative path string of every file of the corpus.
RelativePaths == {[file |-> rel, path |-> JoinPath(rel)] : rel \in FileUniverse}

RelPath(rel) == (CHOOSE r \in RelativePaths : r.file = rel).path

\* create_graph has returned normally.
Written == pc = "done" /\ ~dry_run

OwnNodes(s, L, kind) == {n \in s.nodes : {L, kind} \subseteq n.labels}

DocNodeIds(path) == {n.id : n \in MatchNodes(store, {project, "Document"}, "path", path)}

DocIndexes == 1..Len(docs)

AllNames(field(_)) == UNION {Range(field(docs[k])) : k \in DocIndexes}

ComponentsOf(doc) == doc.components

WrittenConceptsOf(doc) == Take(doc.concepts, ConceptWriteCap)

\* C1: writing the same Documents and Decisions a second time under the same
\* label leaves the same nodes, relationships and per-kind counts under that
\* label as the first write did; and what a write leaves under the label is
\* one node per Document, per Decision, per distinct component and concept
\* name, whatever the store held before.
GraphWriteIdempotent ==
    /\ (Written /\ run >= 2) => View(store, project) = after_first
    /\ Written =>
         /\ Cardinality(OwnNodes(store, project, "Document")) = Len(docs)
         /\ Cardinality(OwnNodes(store, project, "Decision")) = Len(decisions)
         /\ Cardinality(OwnNodes(store, project, "Component"))
               = Cardinality(AllNames(ComponentsOf))
         /\ Cardinality(OwnNodes(store, project, "Concept"))
               = Cardinality(AllNames(WrittenConceptsOf))

GraphWrittenTwice ==
    /\ Written
    /\ run = 2
    /\ Len(docs) = 2
    /\ Len(decisions) >= 1
    /\ after_first.nedges >= 3
    /\ View(base, project) = after_first

\* C2: once create_graph has completed, every Document A whose references
\* contain the path of a Document B has exactly one REFERENCES relationship
\* from A's node to B's node, whatever their order and however often the
\* reference is repeated; references that match no Document path add no
\* relationship.
ReferencePairs ==
    {p \in DocIndexes \X DocIndexes : docs[p[2]].path \in Range(docs[p[1]].references)}

ReferenceEdges(a, b) ==
    {e \in store.edges : /\ e.type = "REFERENCES"
                         /\ e.src \in DocNodeIds(docs[a].path)
                         /\ e.dst \in DocNodeIds(docs[b].path)}

ReferenceLinkage ==
    Written =>
      /\ \A k \in DocIndexes : Cardinality(DocNodeIds(docs[k].path)) = 1
      /\ \A p \in ReferencePairs : Cardinality(ReferenceEdges(p[1], p[2])) = 1
      /\ Cardinality({e \in store.edges :
                        /\ e.type = "REFERENCES"
                        /\ NodeById(store, e.src) \in OwnNodes(store, project, "Document")})
            = Cardinality(ReferencePairs)

Occurrences(seq, x) == Cardinality({k \in DOMAIN seq : seq[k] = x})

ReferencesBothWays ==
    /\ Written
    /\ \E a, b \in DocIndexes :
          /\ a < b
          /\ Occurrences(docs[a].references, docs[b].path) >= 2
          /\ docs[a].path \in Range(docs[b].references)
          /\ \E r \in Range(docs[a].references) :
                \A k \in DocIndexes : docs[k].path # r

\* C3: the scan loop never raises and visits every file; the Document list
\* holds exactly one Document for each visited, non-excluded file whose
\* parse_document call returned, and a file whose Document construction
\* failed contributes no Document and no Decision and gets a warning.
ScanFaultIsolation ==
    /\ err # "parse"
    /\ idx <= Len(md_files) + 1
    /\ pc \notin {"start", "exit", "scan"} => idx = Len(md_files) + 1
    /\ \A k \in 1..Len(md_files) :
          Cardinality({j \in DocIndexes : docs[j].path = RelPath(md_files[k])})
             = IF k < idx /\ md_files[k] \in built /\ md_files[k] \notin SkippedFiles
               THEN 1 ELSE 0
    /\ Len(docs) = Cardinality(built)
    /\ \A k \in 1..(idx - 1) :
          md_files[k] \notin built =>
             /\ \A j \in DOMAIN decisions : decisions[j].path # RelPath(md_files[k])
             /\ md_files[k] \notin SkippedFiles => md_files[k] \in Range(warnings)

BadFileThenGoodFile ==
    /\ pc = "scanned"
    /\ Len(md_files) = 2
    /\ md_files[1] \in Range(warnings)
    /\ md_files[1] \notin built
    /\ md_files[2] \in built
    /\ Len(docs) = 1

\* C4: when a write of create_graph fails, main() ends with that error, the
\* failed query is the last one issued (nothing later, no retry), and the
\* store holds the effects of exactly the queries completed before it.
WriteFailureAborts ==
    failed_at > 0 =>
      /\ pc = "error"
      /\ err = "write"
      /\ driver = "closed"
      /\ nq = failed_at
      /\ store = RunQueries(base, project, plan, qi - 1)

WriteFailedMidway ==
    /\ failed_at > 0
    /\ qi > 2
    /\ qi < Len(plan)
    /\ store # base
    /\ store # RunQueries(base, project, plan, Len(plan))

\* C5: when the connectivity check fails, main() ends with that error and no
\* query at all has been issued; queries are issued only after
\* verify_connectivity() has returned.
ConnectivityPrecedesWrites ==
    /\ err = "connect" => pc = "error" /\ nq = 0 /\ store = base /\ ~verified
    /\ nq > 0 => verified

ConnectivityFailed ==
    /\ err = "connect"
    /\ driver = "closed"
    /\ Len(docs) >= 1

\* C6: with the dry-run flag set, no driver is ever created, no query is
\* issued, the store is unchanged, the run does not end with an error, and
\* when it ends every file has been scanned.
DryRunIsolation ==
    dry_run =>
      /\ driver = "none"
      /\ ~verified
      /\ nq = 0
      /\ store = base
      /\ err = "none"
      /\ pc # "error"
      /\ pc \notin {"start", "exit", "scan", "scanned"} =>
            pc = "done" /\ idx = Len(md_files) + 1

DryRunCompleted ==
    /\ dry_run
    /\ pc = "done"
    /\ Len(docs) = 2

\* C7: at every point the store holds at most one Component node per name
\* under the project label and at most one DESCRIBES relationship between a
\* Document node and a Component node; once create_graph has completed there
\* is exactly one Component node for each distinct component name of the
\* input Documents and every Document is linked to each of its components.
ComponentMergeSemantics ==
    /\ \A c1, c2 \in OwnNodes(store, project, "Component") :
          c1.props.name = c2.props.name => c1 = c2
    /\ \A d \in OwnNodes(store, project, "Document") :
       \A c \in OwnNodes(store, project, "Component") :
          Cardinality({e \in store.edges :
                         e.type = "DESCRIBES" /\ e.src = d.id /\ e.dst = c.id}) <= 1
    /\ Written =>
         /\ {c.props.name : c \in OwnNodes(store, project, "Component")}
               = AllNames(ComponentsOf)
         /\ \A k \in DocIndexes : \A name \in Range(docs[k].components) :
               \E e \in store.edges :
                  /\ e.type = "DESCRIBES"
                  /\ e.src \in DocNodeIds(docs[k].path)
                  /\ NodeById(store, e.dst) \in
                        MatchNodes(store, {project, "Component"}, "name", name)

SharedComponentWritten ==
    /\ Written
    /\ \E a, b \in DocIndexes :
          a # b /\ Range(docs[a].components) \cap Range(docs[b].components) # {}

\* C8: every Decision of the scan result has the path of exactly one
\* Document of the result, no two Decisions share a path, and a Decision
\* comes only from a non-excluded file whose Document was built.
DecisionDocumentCorrespondence ==
    \A k \in DOMAIN decisions :
       /\ Cardinality({j \in DocIndexes : docs[j].path = decisions[k].path}) = 1
       /\ \A m \in DOMAIN decisions : m # k => decisions[m].path # decisions[k].path
       /\ \E f \in built : RelPath(f) = decisions[k].path /\ f \notin SkippedFiles

TwoDecisionsScanned ==
    /\ pc = "scanned"
    /\ Len(decisions) = 2
    /\ Len(docs) = 2

\* C9 as stated: for every Decision of the scan result the Document with the
\* same path has doc_type "decision".
DecisionImpliesDecisionType ==
    \A k \in DOMAIN decisions :
       \A j \in DocIndexes :
          docs[j].path = decisions[k].path => docs[j].doc_type = "decision"

\* The files, per docs root, whose parent directory name contains "decision"
\* in any case or whose full path contains "02-".
PathHeuristicHolds ==
    {c \in Roots \X FileUniverse :
        LET abs == c[1] \o c[2]
        IN  \/ Contains(Lower(abs[Len(abs) - 1]), "decision")
            \/ Contains("/" \o JoinPath(c[1]) \o "/" \o JoinPath(c[2]), "02-")}

\* C9 as amended: a Decision is produced only for a file whose parent
\* directory name contains "decision" (in any case) or whose full path
\* contains "02-"; the Document with the same path may have another doc_type.
DecisionFollowsPathHeuristic ==
    \A k \in DOMAIN decisions :
       \E f \in Range(md_files) :
          /\ RelPath(f) = decisions[k].path
          /\ <<docs_path, f>> \in PathHeuristicHolds

DecisionForArchitectureDocument ==
    \E k \in DOMAIN decisions : \E j \in DocIndexes :
       /\ docs[j].path = decisions[k].path
       /\ docs[j].doc_type = "architecture"
       /\ pc = "scanned"

\* C10: a run for project label L leaves every node that does not carry L,
\* and every relationship between two such nodes, as it was when the run
\* started.
Foreign(s, L) ==
    LET others == {n \in s.nodes : L \notin n.labels}
        ids == {n.id : n \in others}
    IN  [nodes |-> others,
         edges |-> {e \in s.edges : e.src \in ids /\ e.dst \in ids}]

FrameOtherLabels == Foreign(store, project) = Foreign(base, project)

OtherLabelSurvivesRun ==
    /\ Written
    /\ run = 1
    /\ Foreign(base, project).edges # {}
    /\ View(store, project) # View(base, project)
    /\ Len(docs) >= 1

=============================================================================
